---- MODULE Spec2Model ----
(***************************************************************************)
(* A model of mun: the unit registry (units.py) and the Measurement value  *)
(* type with its arithmetic and comparison operators (measurement.py).     *)
(*                                                                         *)
(* Python values are records tagged with their type.  A float or an int is *)
(* [type, value] with value an exact rational <<n, d>>; IEEE rounding is   *)
(* not modelled.  An optional value (X | None) is a sequence of length 0   *)
(* or 1.  A Measurement is a record holding the instance attributes that   *)
(* __init__ has assigned: it has no "unit" field when no branch of         *)
(* __init__ assigned self.unit.                                            *)
(***************************************************************************)
EXTENDS Integers, Sequences, FiniteSets, TLC

VARIABLES
    units,   \* Registry.units: the dict, as its items in insertion order
    x,       \* a caller's variable holding a Measurement (None before any)
    derived, \* whether x holds the result of an operator (not a constructed one)
    adds,    \* how many add_unit calls were made
    last     \* the last call made: operation, arguments, outcome

vars == <<units, x, derived, adds, last>>

\* Largest plain value the caller passes in (besides 60 seconds).
MaxVal == 1
\* Most add_unit calls made by the caller.
MaxAdds == 1
\* Largest exponent the caller raises a Measurement to.
MaxExp == 3

None == <<>>
Some(v) == <<v>>

-----------------------------------------------------------------------------
(* float arithmetic, as exact rationals <<numerator, denominator>>         *)

Abs(n) == IF n < 0 THEN -n ELSE n

RECURSIVE GCD(_, _)
GCD(a, b) == IF b = 0 THEN a ELSE GCD(b, a % b)

Q(n, d) ==
    LET g == GCD(Abs(n), Abs(d))
        s == IF d < 0 THEN -1 ELSE 1
    IN  <<(s * n) \div g, (s * d) \div g>>

QInt(n) == <<n, 1>>
QAdd(a, b) == Q(a[1] * b[2] + b[1] * a[2], a[2] * b[2])
QSub(a, b) == Q(a[1] * b[2] - b[1] * a[2], a[2] * b[2])
QMul(a, b) == Q(a[1] * b[1], a[2] * b[2])
\* defined for b # 0 only; Python raises ZeroDivisionError otherwise
QDiv(a, b) == Q(a[1] * b[2], a[2] * b[1])
QIsZero(a) == a[1] = 0
QLt(a, b) == a[1] * b[2] < b[1] * a[2]
QLe(a, b) == a[1] * b[2] <= b[1] * a[2]

\* float ** int for an exponent that is not negative
RECURSIVE QPow(_, _)
QPow(a, n) == IF n = 0 THEN QInt(1) ELSE QMul(a, QPow(a, n - 1))

\* str(n) of an int
Digits == <<"0", "1", "2", "3", "4", "5", "6", "7", "8", "9">>
RECURSIVE IntStr(_)
IntStr(n) ==
    IF n < 0 THEN "-" \o IntStr(-n)
    ELSE IF n < 10 THEN Digits[n + 1]
    ELSE IntStr(n \div 10) \o Digits[(n % 10) + 1]

\* Whether a float is a whole number.
IsWhole(a) == a[2] = 1
\* str(v) of a float that is a whole number: its digits and ".0".
FloatStr(a) == IntStr(a[1]) \o ".0"

-----------------------------------------------------------------------------
(* units.py: Unit, UnitInfo and the conversion functions                   *)

\* enum UnitOps
UnitOps_Mul == "UnitOps.Mul"
UnitOps_Div == "UnitOps.Div"

\* @dataclass Unit: equality is field-wise.  to_base and from_base hold the
\* name of the function object, or "None".
Unit(symbol, kind, to_base, from_base, components, ops) ==
    [symbol |-> symbol, kind |-> kind, to_base |-> to_base,
     from_base |-> from_base, components |-> components, ops |-> ops]

\* @dataclass UnitInfo: equality compares name and aliases, hash uses name.
UnitInfo(name, aliases) == [name |-> name, aliases |-> aliases]

\* Call with Minute.from_base multiplying instead of dividing.
CallMinuteTimes(f, v) ==
    CASE f = "BaseUnitType.to_base"   -> v
      [] f = "BaseUnitType.from_base" -> v
      [] f = "KiloUnitType.to_base"   -> QMul(v, QInt(1000))
      [] f = "KiloUnitType.from_base" -> QDiv(v, QInt(1000))
      [] f = "MiliUnitType.to_base"   -> QDiv(v, QInt(1000))
      [] f = "MiliUnitType.from_base" -> QMul(v, QInt(1000))
      [] f = "Minute.to_base"         -> QMul(v, QInt(60))
      [] f = "Minute.from_base"       -> QMul(v, QInt(60))
      [] f = "Hour.to_base"           -> QMul(v, QInt(3600))
      [] f = "Hour.from_base"         -> QDiv(v, QInt(3600))

\* Call with KiloUnitType.from_base being that of MiliUnitType.
CallKiloAsMili(f, v) ==
    CASE f = "BaseUnitType.to_base"   -> v
      [] f = "BaseUnitType.from_base" -> v
      [] f = "KiloUnitType.to_base"   -> QMul(v, QInt(1000))
      [] f = "KiloUnitType.from_base" -> QMul(v, QInt(1000))
      [] f = "MiliUnitType.to_base"   -> QDiv(v, QInt(1000))
      [] f = "MiliUnitType.from_base" -> QMul(v, QInt(1000))
      [] f = "Minute.to_base"         -> QMul(v, QInt(60))
      [] f = "Minute.from_base"       -> QDiv(v, QInt(60))
      [] f = "Hour.to_base"           -> QMul(v, QInt(3600))
      [] f = "Hour.from_base"         -> QDiv(v, QInt(3600))

\* Calling one of the static conversion functions on a float.
Call(f, v) ==
    CASE f = "BaseUnitType.to_base"   -> v
      [] f = "BaseUnitType.from_base" -> v
      [] f = "KiloUnitType.to_base"   -> QMul(v, QInt(1000))
      [] f = "KiloUnitType.from_base" -> QDiv(v, QInt(1000))
      [] f = "MiliUnitType.to_base"   -> QDiv(v, QInt(1000))
      [] f = "MiliUnitType.from_base" -> QMul(v, QInt(1000))
      [] f = "Minute.to_base"         -> QMul(v, QInt(60))
      [] f = "Minute.from_base"       -> QDiv(v, QInt(60))
      [] f = "Hour.to_base"           -> QMul(v, QInt(3600))
      [] f = "Hour.from_base"         -> QDiv(v, QInt(3600))

\* The identities of the catalog classes (the class attribute `id`).
MeterId == UnitInfo("meter", Some(<<"m", "meters", "metre", "metres",
    "Meter", "Meters", "Metre", "Metres">>))
KilometerId == UnitInfo("kilometer", Some(<<"kg", "kilometers", "Kilometer",
    "Kilometers", "kilometres", "Kilometre", "Kilometres">>))
SecondId == UnitInfo("second", Some(<<"s", "sec", "secs", "seconds", "Sec",
    "Secs", "Second", "Seconds">>))
MinuteId == UnitInfo("minute", Some(<<"min", "mins", "minutes", "Min",
    "Mins", "Minutes">>))
HourId == UnitInfo("hour", Some(<<"h", "hr", "hrs", "hours", "Hour",
    "Hours">>))
GramId == UnitInfo("gram", Some(<<"g", "grams", "Gram", "Grams">>))
KilogramId == UnitInfo("kilogram", Some(<<"kg", "kilograms", "Kilogram",
    "Kilograms">>))
MeterSquaredId == UnitInfo("meter squared", Some(<<"m*m", "m^2", "m**2",
    "meters squared", "metre squared", "metres squared", "Meters Squared",
    "Metre Squared", "Metres Squared">>))
KilometerSquaredId == UnitInfo("kilometer squared", Some(<<"km*km", "km^2",
    "km**2", "kilometers squared", "kilometre squared", "kilometres squared",
    "Kilometers Squared", "Kilometre Squared", "Kilometres Squared">>))
MeterCubedId == UnitInfo("meter cubed", Some(<<"m*m*m", "m^3", "m**3",
    "meters cubed", "metre cubed", "metres cubed", "Meters Cubed",
    "Metre Cubed", "Metres Cubed">>))
MeterPerSecondId == UnitInfo("meter per second", Some(<<"m/s", "mps",
    "metre per second", "metres per second", "meters per second",
    "Meter Per Second", "Metre Per Second", "Metres Per Second",
    "Meters Per Second">>))
MeterPerSecondSquaredId == UnitInfo("meter per second squared", Some(<<
    "m/s^2", "m/s**2", "m/s/s", "metre per second squared",
    "metres per second squared", "meters per second squared",
    "Meter Per Second Squared", "Metre Per Second Squared",
    "Metres Per Second Squared", "Meters Per Second Squared">>))
NewtonId == UnitInfo("newton", Some(<<"N", "Newton", "newtons", "Newtons",
    "kg*m/s^2", "kg*m/s/s", "kg*m/s**2">>))
PascalId == UnitInfo("pascal", Some(<<"Pa", "Pascal", "pascals", "Pascals",
    "N/m^2", "N/m/m", "N/m**2">>))
KelvinId == UnitInfo("kelvin", Some(<<"K", "Kelvin", "kelvins", "Kelvins">>))
KilogramPerMeterCubedId == UnitInfo("kilogram per meter cubed", Some(<<
    "kg/m^3", "kg/m**3", "kg/m/m/m", "kilograms per meter cubed",
    "Kilogram Per Meter Cubed", "Kilograms Per Meter Cubed">>))
MeterSquaredPerSecondId == UnitInfo("meter squared per second", Some(<<
    "m^2/s", "m**2/s", "meters squared per second",
    "metre squared per second", "metres squared per second",
    "Meters Squared Per Second", "Metre Squared Per Second",
    "Metres Squared Per Second">>))

BaseUnit(symbol, kind) ==
    Unit(symbol, kind, "BaseUnitType.to_base", "BaseUnitType.from_base",
         None, None)
KiloUnit(symbol, kind) ==
    Unit(symbol, kind, "KiloUnitType.to_base", "KiloUnitType.from_base",
         None, None)

Item(id, unit) == [id |-> id, unit |-> unit]

\* The class attribute Registry.units as the module is imported.
RegistryUnits == <<
    Item(MeterId, BaseUnit("m", "length")),
    Item(KilometerId, KiloUnit("km", "length")),
    Item(SecondId, BaseUnit("s", "time")),
    Item(MinuteId, Unit("min", "time", "Minute.to_base", "Minute.from_base",
                        None, None)),
    Item(HourId, Unit("hr", "time", "Hour.to_base", "Hour.from_base",
                      None, None)),
    Item(GramId, BaseUnit("g", "mass")),
    Item(KilogramId, KiloUnit("kg", "mass")),
    Item(MeterSquaredId, BaseUnit("m^2", "area")),
    Item(KilometerSquaredId, KiloUnit("km^2", "area")),
    Item(MeterCubedId, BaseUnit("m^3", "volume")),
    Item(MeterPerSecondId, BaseUnit("m/s", "velocity")),
    Item(MeterPerSecondSquaredId, BaseUnit("m/s^2", "acceleration")),
    Item(NewtonId, BaseUnit("N", "force")),
    Item(PascalId, BaseUnit("Pa", "pressure")),
    Item(KelvinId, BaseUnit("K", "temperature")),
    Item(KilogramPerMeterCubedId, BaseUnit("kg/m^3", "density")),
    Item(MeterSquaredPerSecondId, BaseUnit("m^2/s", "viscosity")) >>

\* dict.__getitem__: the value stored under a key equal to id.
GetItem(d, id) ==
    d[CHOOSE i \in 1..Len(d) : d[i].id = id].unit

\* dict.__setitem__ putting a new key in front of the others.
SetItemFront(d, id, unit) ==
    IF \E i \in 1..Len(d) : d[i].id = id
    THEN [i \in 1..Len(d) |->
            IF d[i].id = id THEN Item(d[i].id, unit) ELSE d[i]]
    ELSE <<Item(id, unit)>> \o d

\* dict.__setitem__: overwrite the value of an equal key in place (the key
\* object and its position stay), else append a new item.
SetItem(d, id, unit) ==
    IF \E i \in 1..Len(d) : d[i].id = id
    THEN [i \in 1..Len(d) |->
            IF d[i].id = id THEN Item(d[i].id, unit) ELSE d[i]]
    ELSE Append(d, Item(id, unit))

\* `unit in id.aliases` guarded by `id.aliases and`: a None or empty list
\* is falsy.
InAliases(token, id) ==
    /\ id.aliases # None
    /\ \E k \in 1..Len(id.aliases[1]) : id.aliases[1][k] = token

-----------------------------------------------------------------------------
(* measurement.py: Measurement                                             *)

\* A Python float, int or str object.
PyFloat(v) == [type |-> "float", value |-> v]
PyInt(v) == [type |-> "int", value |-> v]
PyStr(s) == [type |-> "str", str |-> s]
UnitObj(u) == [type |-> "Unit", unit |-> u]
\* the object None
PyNone == [type |-> "NoneType"]

IsNumber(o) == o.type \in {"float", "int"}
IsMeasurement(o) == o.type = "Measurement"
\* hasattr(m, "unit")
HasUnit(m) == "unit" \in DOMAIN m

\* What a call did: the value it returned, or the exception it raised.
Return(v) == [raised |-> "None", msg |-> "", ret |-> Some(v)]
Raise(e, msg) == [raised |-> e, msg |-> msg, ret |-> None]

\* The messages of the TypeErrors raised (without their backquotes).
KindMsg(kind) == "other must be a unit of " \o kind
ConvMsg == "self and other must have units with to_base and from_base methods defined"
CmpMsg == "other must be Measurement or float"
\* The text of the bound method self.unit.__ne__ in an f-string (the
\* address it ends with is left out).
MethodWrapper == "<method-wrapper '__ne__' of Unit object>"
\* The TypeError of the interpreter when neither operand's class can
\* compare itself with the other.
NotSupportedMsg == "not supported between instances"

\* The loop of __init__ over ureg.units from item i on: the unit of the
\* first item whose name is the token or whose aliases hold it.
RECURSIVE InitScan(_, _, _)
InitScan(d, i, token) ==
    IF i > Len(d) THEN None
    ELSE IF d[i].id.name = token THEN Some(d[i].unit)
    ELSE IF InAliases(token, d[i].id) THEN Some(d[i].unit)
    ELSE InitScan(d, i + 1, token)

\* Measurement(value, unit): the instance as __init__ leaves it.
__init__(value, unit) ==
    LET self == [type |-> "Measurement", value |-> value]
    IN  IF unit.type = "Unit" THEN self @@ [unit |-> unit.unit]
        ELSE IF unit.type = "str"
             THEN LET found == InitScan(units, 1, unit.str)
                  IN  IF found # None THEN self @@ [unit |-> found[1]]
                      ELSE self
        ELSE self

\* Measurement(value, unit) where unit is a Unit.
Measurement(value, unit) == __init__(value, UnitObj(unit))

\* _get_unit without the `else: return None` of the loop body: the scan
\* goes on to the next item.
_get_unit_scanning(symbol) == InitScan(units, 1, symbol)

\* _get_unit: every branch of the loop body returns, so only the first
\* item of ureg.units is looked at; an empty dict ends the loop at once.
_get_unit(symbol) ==
    IF Len(units) = 0 THEN None
    ELSE IF units[1].id.name = symbol THEN Some(units[1].unit)
    ELSE IF InAliases(symbol, units[1].id) THEN Some(units[1].unit)
    ELSE None

\* The branch of __add__ and __sub__ taken when both units have the same
\* kind.
Convertible(self, other) ==
    /\ self.unit.to_base # "None"
    /\ other.unit.to_base # "None"
    /\ self.unit.from_base # "None"

__add__(self, other) ==
    IF IsMeasurement(other)
    THEN IF ~HasUnit(self) \/ ~HasUnit(other)
         THEN Raise("AttributeError", "unit")
         ELSE IF self.unit.kind = other.unit.kind
         THEN IF Convertible(self, other)
              THEN LET base_value ==
                           QAdd(Call(self.unit.to_base, self.value),
                                Call(other.unit.to_base, other.value))
                   IN  Return(Measurement(
                           Call(self.unit.from_base, base_value), self.unit))
              ELSE Raise("TypeError", ConvMsg)
         ELSE Raise("TypeError", KindMsg(self.unit.kind))
    ELSE IF ~IsNumber(other) THEN Raise("TypeError", "unsupported operand")
    ELSE IF ~HasUnit(self) THEN Raise("AttributeError", "unit")
    ELSE Return(Measurement(QAdd(self.value, other.value), self.unit))

\* __sub__ testing for the conversion functions before testing the kinds.
__sub__conv_first(self, other) ==
    IF IsMeasurement(other)
    THEN IF ~HasUnit(self) \/ ~HasUnit(other)
         THEN Raise("AttributeError", "unit")
         ELSE IF Convertible(self, other)
         THEN IF self.unit.kind = other.unit.kind
              THEN LET base_value ==
                           QSub(Call(self.unit.to_base, self.value),
                                Call(other.unit.to_base, other.value))
                   IN  Return(Measurement(
                           Call(self.unit.from_base, base_value), self.unit))
              ELSE Raise("TypeError", KindMsg(self.unit.kind))
         ELSE Raise("TypeError", ConvMsg)
    ELSE IF ~IsNumber(other) THEN Raise("TypeError", "unsupported operand")
    ELSE IF ~HasUnit(self) THEN Raise("AttributeError", "unit")
    ELSE Return(Measurement(QSub(self.value, other.value), self.unit))

__sub__(self, other) ==
    IF IsMeasurement(other)
    THEN IF ~HasUnit(self) \/ ~HasUnit(other)
         THEN Raise("AttributeError", "unit")
         ELSE IF self.unit.kind = other.unit.kind
         THEN IF Convertible(self, other)
              THEN LET base_value ==
                           QSub(Call(self.unit.to_base, self.value),
                                Call(other.unit.to_base, other.value))
                   IN  Return(Measurement(
                           Call(self.unit.from_base, base_value), self.unit))
              ELSE Raise("TypeError", ConvMsg)
         ELSE Raise("TypeError", KindMsg(self.unit.kind))
    ELSE IF ~IsNumber(other) THEN Raise("TypeError", "unsupported operand")
    ELSE IF ~HasUnit(self) THEN Raise("AttributeError", "unit")
    ELSE Return(Measurement(QSub(self.value, other.value), self.unit))

\* The unit __mul__ and __div__ give their result: the one _get_unit
\* found, else a new Unit that is not put into the registry.
ComposedUnit(self, other, op, sign) ==
    LET symbol == self.unit.symbol \o sign \o other.unit.symbol
        kind == self.unit.kind \o sign \o other.unit.kind
        unit == _get_unit(symbol)
    IN  IF unit = None
        THEN Unit(symbol, kind, "None", "None",
                  Some(<<self.unit.symbol, other.unit.symbol>>), Some(<<op>>))
        ELSE unit[1]

\* __mul__ composing a unit with the number's (absent) unit in mind: the
\* scalar branch returns the value unscaled.
__mul__scalar_dropped(self, other) ==
    IF IsMeasurement(other)
    THEN IF ~HasUnit(self) \/ ~HasUnit(other)
         THEN Raise("AttributeError", "unit")
         ELSE Return(Measurement(QMul(self.value, other.value),
                                 ComposedUnit(self, other, UnitOps_Mul, "*")))
    ELSE IF ~IsNumber(other) THEN Raise("TypeError", "unsupported operand")
    ELSE IF ~HasUnit(self) THEN Raise("AttributeError", "unit")
    ELSE Return(Measurement(self.value, self.unit))

__mul__(self, other) ==
    IF IsMeasurement(other)
    THEN IF ~HasUnit(self) \/ ~HasUnit(other)
         THEN Raise("AttributeError", "unit")
         ELSE Return(Measurement(QMul(self.value, other.value),
                                 ComposedUnit(self, other, UnitOps_Mul, "*")))
    ELSE IF ~IsNumber(other) THEN Raise("TypeError", "unsupported operand")
    ELSE IF ~HasUnit(self) THEN Raise("AttributeError", "unit")
    ELSE Return(Measurement(QMul(self.value, other.value), self.unit))

__div__(self, other) ==
    IF IsMeasurement(other)
    THEN IF ~HasUnit(self) \/ ~HasUnit(other)
         THEN Raise("AttributeError", "unit")
         ELSE IF QIsZero(other.value)
         THEN Raise("ZeroDivisionError", "float division by zero")
         ELSE Return(Measurement(QDiv(self.value, other.value),
                                 ComposedUnit(self, other, UnitOps_Div, "/")))
    ELSE IF ~IsNumber(other) THEN Raise("TypeError", "unsupported operand")
    ELSE IF QIsZero(other.value)
    THEN Raise("ZeroDivisionError", "float division by zero")
    ELSE IF ~HasUnit(self) THEN Raise("AttributeError", "unit")
    ELSE Return(Measurement(QDiv(self.value, other.value), self.unit))

\* __eq__ answering False for an object of another type, as object.__eq__
\* does, instead of raising.
__eq__lenient(self, other) ==
    IF IsMeasurement(other)
    THEN IF ~HasUnit(self) \/ ~HasUnit(other)
         THEN Raise("AttributeError", "unit")
         ELSE Return(self.unit = other.unit /\ self.value = other.value)
    ELSE IF other.type = "float" THEN Return(self.value = other.value)
    ELSE Return(FALSE)

__eq__(self, other) ==
    IF IsMeasurement(other)
    THEN IF ~HasUnit(self) \/ ~HasUnit(other)
         THEN Raise("AttributeError", "unit")
         ELSE Return(self.unit = other.unit /\ self.value = other.value)
    ELSE IF other.type = "float" THEN Return(self.value = other.value)
    ELSE Raise("TypeError", CmpMsg)

__ne__(self, other) ==
    IF IsMeasurement(other)
    THEN IF ~HasUnit(self) \/ ~HasUnit(other)
         THEN Raise("AttributeError", "unit")
         ELSE Return(self.unit # other.unit \/ self.value # other.value)
    ELSE IF other.type = "float" THEN Return(self.value # other.value)
    ELSE Raise("TypeError", CmpMsg)

\* __str__
__str__(self) ==
    IF ~HasUnit(self) THEN Raise("AttributeError", "unit")
    ELSE IF self.unit.symbol # ""
    THEN Return(FloatStr(self.value) \o " " \o self.unit.symbol)
    ELSE Return(FloatStr(self.value) \o " " \o MethodWrapper)

\* __pow__, for exp >= 0
__pow__(self, exp) ==
    IF ~HasUnit(self) THEN Raise("AttributeError", "unit")
    ELSE LET symbol == self.unit.symbol \o "^" \o IntStr(exp)
             found == _get_unit(symbol)
             unit == IF found = None
                     THEN Unit(symbol, "", "None", "None",
                               Some([k \in 1..exp |-> self.unit.symbol]),
                               Some(<<UnitOps_Div>>))
                     ELSE found[1]
         IN  Return(Measurement(QPow(self.value, exp), unit))

\* self.value <op> other of the ordering methods, other not a Measurement:
\* float compares itself with a float or an int; with a str or None both
\* classes return NotImplemented and the interpreter raises TypeError.
FloatCompare(a, op, other) ==
    IF IsNumber(other)
    THEN Return(CASE op = ">"  -> QLt(other.value, a)
                  [] op = ">=" -> QLe(other.value, a)
                  [] op = "<"  -> QLt(a, other.value)
                  [] op = "<=" -> QLe(a, other.value))
    ELSE Raise("TypeError", NotSupportedMsg)

\* __gt__ comparing the values in the base unit of the kind.
__gt__in_base(self, other) ==
    IF IsMeasurement(other)
    THEN IF ~HasUnit(self) \/ ~HasUnit(other)
         THEN Raise("AttributeError", "unit")
         ELSE Return(/\ self.unit.kind = other.unit.kind
                     /\ self.unit.to_base # "None"
                     /\ other.unit.to_base # "None"
                     /\ QLt(Call(other.unit.to_base, other.value),
                            Call(self.unit.to_base, self.value)))
    ELSE FloatCompare(self.value, ">", other)

__gt__(self, other) ==
    IF IsMeasurement(other)
    THEN IF ~HasUnit(self) \/ ~HasUnit(other)
         THEN Raise("AttributeError", "unit")
         ELSE Return(self.unit = other.unit /\ QLt(other.value, self.value))
    ELSE FloatCompare(self.value, ">", other)

__ge__(self, other) ==
    IF IsMeasurement(other)
    THEN IF ~HasUnit(self) \/ ~HasUnit(other)
         THEN Raise("AttributeError", "unit")
         ELSE Return(self.unit = other.unit /\ QLe(other.value, self.value))
    ELSE FloatCompare(self.value, ">=", other)

__lt__(self, other) ==
    IF IsMeasurement(other)
    THEN IF ~HasUnit(self) \/ ~HasUnit(other)
         THEN Raise("AttributeError", "unit")
         ELSE Return(self.unit = other.unit /\ QLt(self.value, other.value))
    ELSE FloatCompare(self.value, "<", other)

__le__(self, other) ==
    IF IsMeasurement(other)
    THEN IF ~HasUnit(self) \/ ~HasUnit(other)
         THEN Raise("AttributeError", "unit")
         ELSE Return(self.unit = other.unit /\ QLe(self.value, other.value))
    ELSE FloatCompare(self.value, "<=", other)

\* The reflected operators are the forward methods under another name:
\* `n + m` with a plain number n ends in m.__radd__(n).
__radd__(self, other) == __add__(self, other)
\* __rsub__ as a reflected subtraction proper: other - self.value.
__rsub__swapped(self, other) ==
    IF ~IsNumber(other) THEN Raise("TypeError", "unsupported operand")
    ELSE IF ~HasUnit(self) THEN Raise("AttributeError", "unit")
    ELSE Return(Measurement(QSub(other.value, self.value), self.unit))
__rsub__(self, other) == __sub__(self, other)
__rmul__(self, other) == __mul__(self, other)

\* Registry.add_unit
add_unit(id, unit) == SetItem(units, id, unit)

\* The properties of Registry that the caller reads units from.
meter == GetItem(units, MeterId)
kilometer == GetItem(units, KilometerId)
second == GetItem(units, SecondId)
minute == GetItem(units, MinuteId)

-----------------------------------------------------------------------------
(* The caller: values, units and strings it passes in                      *)

InputValues == {QInt(n) : n \in 0..MaxVal}

\* Units of the caller's own: one per conversion function left out.
ToBaseOnly == Unit("yd", "length", "BaseUnitType.to_base", "None", None, None)
FromBaseOnly ==
    Unit("ft", "length", "None", "BaseUnitType.from_base", None, None)

\* A unit of the caller's own that has no symbol.
NoSymbol ==
    Unit("", "length", "BaseUnitType.to_base", "BaseUnitType.from_base",
         None, None)

InputUnits ==
    {meter, kilometer, second, minute, ToBaseOnly, FromBaseOnly, NoSymbol}
InputStrs == {"m", "km", "kg", "m^2", "bogus"}
UnitArgs == {UnitObj(u) : u \in InputUnits} \cup {PyStr(t) : t \in InputStrs}

\* Measurements the caller builds to pass as the other operand.
OtherArgs ==
    {UnitObj(u) : u \in {meter, kilometer, second, ToBaseOnly, FromBaseOnly}}
        \cup {PyStr("bogus")}
Fresh ==
    {__init__(v, a) : v \in InputValues, a \in OtherArgs}
        \cup {__init__(QInt(60), UnitObj(second))}
Numbers == {PyFloat(v) : v \in InputValues} \cup {PyInt(QInt(1))}

\* The identity and unit of test_create, and further custom registrations.
Registrations == {
    <<UnitInfo("meters squared", Some(<<"m2", "m^2">>)),
      BaseUnit("m^2", "area")>>,
    <<UnitInfo("meter", Some(<<"m">>)), BaseUnit("M", "length")>>,
    <<UnitInfo("second squared", Some(<<"s*s", "s">>)),
      BaseUnit("s*s", "time*time")>> }

\* Objects that are neither a Measurement nor a number.
Others == {PyStr("m"), PyNone}
\* Strings the caller looks up with _get_unit.
Symbols == {"m", "s", "m^2", "s*s", "bogus"}

\* A call as the caller sees it: the method, the arguments, what it did,
\* and the registry as it was when the call was made.
Call_(op, args, out) ==
    [op |-> op, args |-> args, out |-> out, units0 |-> units]
Self == last.args[1]
Other == last.args[2]
Returned == last.out.raised = "None"
Result == last.out.ret[1]

Idle == [op |-> "none", args |-> <<>>, out |-> Return(None), units0 |-> <<>>]

Init ==
    /\ units = RegistryUnits
    /\ x = None
    /\ derived = FALSE
    /\ adds = 0
    /\ last = Idle

\* What the caller may construct x from in its next statement.
Constructible ==
    IF last.op = "none" THEN UnitArgs ELSE {}

\* x = Measurement(v, a)
New(v, a) ==
    /\ last.op = "none"
    /\ x' = Some(__init__(v, a))
    /\ derived' = FALSE
    /\ last' = Call_("__init__", <<x'[1], PyFloat(v), a>>, Return(None))
    /\ UNCHANGED <<units, adds>>

\* What the caller may pass as the other operand of its next statement.
Operands ==
    IF last.op = "none"
    THEN Fresh \cup Numbers \cup {x[i] : i \in DOMAIN x}
    ELSE {}

\* x + other
Add(other) ==
    /\ last.op = "none"
    /\ x # None
    /\ last' = Call_("__add__", <<x[1], other>>, __add__(x[1], other))
    /\ UNCHANGED <<units, x, derived, adds>>

\* x - other
Sub(other) ==
    /\ last.op = "none"
    /\ x # None
    /\ last' = Call_("__sub__", <<x[1], other>>, __sub__(x[1], other))
    /\ UNCHANGED <<units, x, derived, adds>>

\* x * other
Mul(other) ==
    /\ last.op = "none"
    /\ x # None
    /\ last' = Call_("__mul__", <<x[1], other>>, __mul__(x[1], other))
    /\ UNCHANGED <<units, x, derived, adds>>

\* x / other
Div(other) ==
    /\ last.op = "none"
    /\ x # None
    /\ last' = Call_("__div__", <<x[1], other>>, __div__(x[1], other))
    /\ UNCHANGED <<units, x, derived, adds>>

\* n + x: the number's own __add__ returns NotImplemented
RAdd(n) ==
    /\ last.op = "none"
    /\ x # None
    /\ last' = Call_("__radd__", <<x[1], n>>, __radd__(x[1], n))
    /\ UNCHANGED <<units, x, derived, adds>>

\* n - x
RSub(n) ==
    /\ last.op = "none"
    /\ x # None
    /\ last' = Call_("__rsub__", <<x[1], n>>, __rsub__(x[1], n))
    /\ UNCHANGED <<units, x, derived, adds>>

\* n * x
RMul(n) ==
    /\ last.op = "none"
    /\ x # None
    /\ last' = Call_("__rmul__", <<x[1], n>>, __rmul__(x[1], n))
    /\ UNCHANGED <<units, x, derived, adds>>

\* x == other, for a constructed x
Eq(other) ==
    /\ last.op = "none"
    /\ x # None
    /\ ~derived
    /\ last' = Call_("__eq__", <<x[1], other>>, __eq__(x[1], other))
    /\ UNCHANGED <<units, x, derived, adds>>

\* x != other, for a constructed x
Ne(other) ==
    /\ last.op = "none"
    /\ x # None
    /\ ~derived
    /\ last' = Call_("__ne__", <<x[1], other>>, __ne__(x[1], other))
    /\ UNCHANGED <<units, x, derived, adds>>

\* What the caller may compare a constructed x with: an operand of
\* arithmetic or an object of another type.
Comparands ==
    IF last.op = "none" /\ ~derived THEN Operands \cup Others ELSE {}

\* x > other, for a constructed x
Gt(other) ==
    /\ last.op = "none"
    /\ x # None
    /\ ~derived
    /\ last' = Call_("__gt__", <<x[1], other>>, __gt__(x[1], other))
    /\ UNCHANGED <<units, x, derived, adds>>

\* x >= other, for a constructed x
Ge(other) ==
    /\ last.op = "none"
    /\ x # None
    /\ ~derived
    /\ last' = Call_("__ge__", <<x[1], other>>, __ge__(x[1], other))
    /\ UNCHANGED <<units, x, derived, adds>>

\* x < other, for a constructed x
Lt(other) ==
    /\ last.op = "none"
    /\ x # None
    /\ ~derived
    /\ last' = Call_("__lt__", <<x[1], other>>, __lt__(x[1], other))
    /\ UNCHANGED <<units, x, derived, adds>>

\* x <= other, for a constructed x
Le(other) ==
    /\ last.op = "none"
    /\ x # None
    /\ ~derived
    /\ last' = Call_("__le__", <<x[1], other>>, __le__(x[1], other))
    /\ UNCHANGED <<units, x, derived, adds>>

\* x.__str__(), for x of a whole value (the digits of any other float
\* depend on its rounding)
Str ==
    /\ last.op = "none"
    /\ x # None
    /\ IsWhole(x[1].value)
    /\ last' = Call_("__str__", <<x[1]>>, __str__(x[1]))
    /\ UNCHANGED <<units, x, derived, adds>>

\* x ** exp, for a constructed x
Pow(exp) ==
    /\ last.op = "none"
    /\ x # None
    /\ ~derived
    /\ last' = Call_("__pow__", <<x[1], PyInt(QInt(exp))>>, __pow__(x[1], exp))
    /\ UNCHANGED <<units, x, derived, adds>>

\* x._get_unit(symbol), for a constructed x
GetUnit(symbol) ==
    /\ last.op = "none"
    /\ x # None
    /\ ~derived
    /\ last' = Call_("_get_unit", <<x[1], PyStr(symbol)>>,
                     Return(_get_unit(symbol)))
    /\ UNCHANGED <<units, x, derived, adds>>

\* units.add_unit(id, unit)
AddUnit(id, unit) ==
    /\ last.op = "none"
    /\ adds < MaxAdds
    /\ units' = add_unit(id, unit)
    /\ adds' = adds + 1
    /\ last' = Call_("add_unit", <<id, unit>>, Return(None))
    /\ UNCHANGED <<x, derived>>

Arithmetic == {"__add__", "__sub__", "__mul__", "__div__",
               "__radd__", "__rsub__", "__rmul__"}

\* The caller assigns the Measurement an operator returned to x.  Only a
\* result of constructed operands is fed back, which keeps symbols and
\* values finite.
Assign ==
    /\ last.op \in Arithmetic
    /\ Returned
    /\ ~derived
    /\ x' = Some(Result)
    /\ derived' = TRUE
    /\ last' = Idle
    /\ UNCHANGED <<units, adds>>

\* The caller goes on to its next statement.
Discard ==
    /\ last.op # "none"
    /\ last' = Idle
    /\ UNCHANGED <<units, x, derived, adds>>

Next ==
    \/ \E v \in InputValues, a \in Constructible : New(v, a)
    \/ \E other \in Operands : Add(other)
    \/ \E other \in Operands : Sub(other)
    \/ \E other \in Operands : Mul(other)
    \/ \E other \in Operands : Div(other)
    \/ \E n \in Numbers : RAdd(n)
    \/ \E n \in Numbers : RSub(n)
    \/ \E n \in Numbers : RMul(n)
    \/ \E other \in Comparands : Eq(other)
    \/ \E other \in Comparands : Ne(other)
    \/ \E other \in Comparands : Gt(other)
    \/ \E other \in Comparands : Ge(other)
    \/ \E other \in Comparands : Lt(other)
    \/ \E other \in Comparands : Le(other)
    \/ Str
    \/ \E exp \in 0..MaxExp : Pow(exp)
    \/ \E symbol \in Symbols : GetUnit(symbol)
    \/ \E r \in Registrations : AddUnit(r[1], r[2])
    \/ Assign
    \/ Discard

Spec == Init /\ [][Next]_vars

-----------------------------------------------------------------------------
(* Claims                                                                  *)

\* What a scan of the whole registry by name or alias finds for a token.
Resolve(token) == InitScan(units, 1, token)

IsInit == last.op = "__init__"
\* The last call was self <op> other with other a Measurement.
BothMeasurements(ops) ==
    /\ last.op \in ops
    /\ IsMeasurement(Other)
BothHaveUnits == HasUnit(Self) /\ HasUnit(Other)

\* C1: constructing a Measurement from a string that is no entry's name and
\* in no entry's aliases fails with UnitNotFoundError, and no Measurement
\* ever lacks a unit.
C1_UnresolvedStringFails ==
    /\ (IsInit /\ last.args[3].type = "str"
            /\ Resolve(last.args[3].str) = None)
        => last.out.raised = "UnitNotFoundError"
    /\ IsInit => HasUnit(Self)
    /\ \A i \in DOMAIN x : HasUnit(x[i])

\* C2: after a Measurement-by-Measurement multiply or divide whose composed
\* symbol was in the registry under no name and no alias, the registry
\* holds an entry whose identity is named by that symbol and whose unit is
\* the returned one.
C2_ComposedUnitRegistered ==
    (/\ BothMeasurements({"__mul__", "__div__"})
     /\ Returned
     /\ InitScan(last.units0, 1, Result.unit.symbol) = None)
    => \E i \in 1..Len(units) :
           /\ units[i].id.name = Result.unit.symbol
           /\ units[i].unit = Result.unit

\* C3: add and subtract of two Measurements whose units differ in kind
\* raise the kind error (TypeError "`other` must be a unit of <kind>"),
\* whether or not the units are convertible, and return nothing.
C3_KindMismatchRaises ==
    (/\ BothMeasurements({"__add__", "__sub__"})
     /\ BothHaveUnits
     /\ Self.unit.kind # Other.unit.kind)
    => /\ last.out.raised = "TypeError"
       /\ last.out.msg = KindMsg(Self.unit.kind)
       /\ last.out.ret = None

\* C3 witness: a subtraction of units of different kind of which one has
\* no to_base raised the kind error.
C3_Witness ==
    /\ BothMeasurements({"__sub__"})
    /\ BothHaveUnits
    /\ Self.unit.kind = "length"
    /\ Other.unit.kind = "time"
    /\ Self.unit.to_base = "None"
    /\ last.out.raised = "TypeError"
    /\ last.out.msg = KindMsg("length")

\* The functions of the two units that are None.
Missing(self, other) ==
    {f \in {<<"self", "to_base">>, <<"self", "from_base">>,
            <<"other", "to_base">>, <<"other", "from_base">>} :
        (IF f[1] = "self" THEN self.unit ELSE other.unit)[f[2]] = "None"}

\* C4: add and subtract of two Measurements of equal kind raise the
\* conversion error whenever any of self.unit.to_base, self.unit.from_base,
\* other.unit.to_base, other.unit.from_base is None.
C4_AnyMissingConversionRaises ==
    (/\ BothMeasurements({"__add__", "__sub__"})
     /\ BothHaveUnits
     /\ Self.unit.kind = Other.unit.kind
     /\ Missing(Self, Other) # {})
    => /\ last.out.raised = "TypeError"
       /\ last.out.msg = ConvMsg
       /\ last.out.ret = None

MinuteUnit ==
    Unit("min", "time", "Minute.to_base", "Minute.from_base", None, None)
IsAdd == last.op = "__add__"

\* self.value combined with a value the way the operator of the last call
\* combines them.
Combined(a, b) ==
    CASE last.op \in {"__add__", "__radd__"} -> QAdd(a, b)
      [] last.op \in {"__sub__", "__rsub__"} -> QSub(a, b)
      [] last.op \in {"__mul__", "__rmul__"} -> QMul(a, b)
      [] last.op = "__div__" -> QDiv(a, b)

\* C5: add (subtract) of two Measurements of equal kind whose units have
\* all conversion functions returns a Measurement in self.unit whose value
\* is self.unit.from_base(self.unit.to_base(self.value) +(-)
\* other.unit.to_base(other.value)); with the same identity-conversion
\* unit on both sides that is a +(-) b, and 1 minute + 60 seconds is 2
\* minutes.
C5_AddSubValue ==
    (/\ BothMeasurements({"__add__", "__sub__"})
     /\ BothHaveUnits
     /\ Self.unit.kind = Other.unit.kind
     /\ Missing(Self, Other) = {})
    => /\ Returned
       /\ IsMeasurement(Result)
       /\ Result.unit = Self.unit
       /\ Result.value =
              Call(Self.unit.from_base,
                   Combined(Call(Self.unit.to_base, Self.value),
                            Call(Other.unit.to_base, Other.value)))
       /\ (/\ Self.unit = Other.unit
           /\ Self.unit.to_base = "BaseUnitType.to_base"
           /\ Self.unit.from_base = "BaseUnitType.from_base")
          => Result.value = Combined(Self.value, Other.value)
       /\ (/\ IsAdd
           /\ Self.unit = MinuteUnit /\ Self.value = QInt(1)
           /\ Other.unit = BaseUnit("s", "time") /\ Other.value = QInt(60))
          => Result.value = QInt(2) /\ Result.unit = MinuteUnit

\* C5 witness: 1 minute + 60 seconds returned 2 minutes.
C5_Witness ==
    /\ BothMeasurements({"__add__"})
    /\ BothHaveUnits
    /\ Self.unit = MinuteUnit /\ Self.value = QInt(1)
    /\ Other.unit.symbol = "s" /\ Other.value = QInt(60)
    /\ Returned
    /\ Result.value = QInt(2)

\* The value of a Measurement in the base unit of its kind.
InBase(m) == Call(m.unit.to_base, m.value)

Sign == IF last.op = "__mul__" THEN "*" ELSE "/"

\* What C7 says of a returned product or quotient.
ComposedResult ==
    /\ IsMeasurement(Result)
    /\ Result.value = Combined(Self.value, Other.value)
    /\ Result.unit.symbol = Self.unit.symbol \o Sign \o Other.unit.symbol
    /\ (last.op = "__mul__" /\ Self.unit.symbol = "m"
            /\ Other.unit.symbol = "m")
       => Result.unit.symbol = "m*m"
    /\ (last.op = "__mul__" /\ Self.unit.symbol = "m^2"
            /\ Other.unit.symbol = "m")
       => Result.unit.symbol = "m^2*m"

C8_ScalarKeepsUnit ==
    (/\ last.op \in {"__add__", "__sub__", "__mul__", "__div__"}
     /\ IsNumber(Other))
    => /\ units = last.units0
       /\ (HasUnit(Self) /\ ~(last.op = "__div__" /\ QIsZero(Other.value)))
          => /\ Returned
             /\ IsMeasurement(Result)
             /\ Result.unit = Self.unit
             /\ Result.value = Combined(Self.value, Other.value)
       /\ Returned => Result.unit = Self.unit

\* C8 witness: 1 m^2 times the plain number 0 returned 0 m^2.
C8_Witness ==
    /\ last.op = "__mul__"
    /\ IsNumber(Other)
    /\ HasUnit(Self)
    /\ Self.unit.symbol = "m^2" /\ Self.value = QInt(1)
    /\ Other.value = QInt(0)
    /\ Returned
    /\ Result.value = QInt(0)
    /\ Result.unit = Self.unit

\* C9: for a Measurement m and a plain number n, n + m does what m + n
\* does, n - m what m - n does and n * m what m * n does: the same value
\* in the same unit, or the same exception.
C9_ReflectedEqualsForward ==
    /\ last.op = "__radd__" => last.out = __add__(Self, Other)
    /\ last.op = "__rsub__" => last.out = __sub__(Self, Other)
    /\ last.op = "__rmul__" => last.out = __mul__(Self, Other)

\* C9 witness: 1 - m for m of 0 meters returned -1 meters, which is m - 1.
C9_Witness ==
    /\ last.op = "__rsub__"
    /\ IsNumber(Other) /\ Other.value = QInt(1)
    /\ HasUnit(Self) /\ Self.value = QInt(0)
    /\ Returned
    /\ Result.value = QInt(-1)
    /\ Result.unit = Self.unit

\* C10: a Measurement equals another one iff their units are equal and
\* their values are equal; it equals a plain number, integer or float, iff
\* its value equals the number, whatever the unit; != is the negation of
\* == in both cases.
C10_Equality ==
    /\ (BothMeasurements({"__eq__", "__ne__"}) /\ BothHaveUnits)
       => /\ Returned
          /\ Result = ((last.op = "__eq__")
                        <=> (Self.unit = Other.unit
                                /\ Self.value = Other.value))
    /\ (last.op \in {"__eq__", "__ne__"} /\ IsNumber(Other))
       => /\ Returned
          /\ Result = ((last.op = "__eq__") <=> (Self.value = Other.value))

Ordering == {"__gt__", "__ge__", "__lt__", "__le__"}

\* The comparison of the last call made on two values.
ValuesCompared(a, b) ==
    CASE last.op = "__gt__" -> QLt(b, a)
      [] last.op = "__ge__" -> QLe(b, a)
      [] last.op = "__lt__" -> QLt(a, b)
      [] last.op = "__le__" -> QLe(a, b)

\* C11: a < b, a <= b, a > b, a >= b of two Measurements is true only when
\* a.unit equals b.unit, and with equal units it is the comparison of the
\* values; against a plain number it is the comparison of a.value with the
\* number.  Nothing is converted: 1 kilometer > 1 meter is not true.
C11_OrderingNeedsEqualUnits ==
    /\ (BothMeasurements(Ordering) /\ BothHaveUnits)
       => /\ Returned
          /\ Result \in BOOLEAN
          /\ Result => Self.unit = Other.unit
          /\ Self.unit = Other.unit
             => Result = ValuesCompared(Self.value, Other.value)
          /\ (/\ last.op = "__gt__"
              /\ Self.unit = KiloUnit("km", "length")
              /\ Other.unit = BaseUnit("m", "length"))
             => Result = FALSE
    /\ (last.op \in Ordering /\ IsNumber(Other))
       => /\ Returned
          /\ Result = ValuesCompared(Self.value, Other.value)

\* C11 witness: 1 kilometer > 1 meter returned False.
C11_Witness ==
    /\ BothMeasurements({"__gt__"})
    /\ BothHaveUnits
    /\ Self.unit.symbol = "km" /\ Self.value = QInt(1)
    /\ Other.unit.symbol = "m" /\ Other.value = QInt(1)
    /\ Returned
    /\ Result = FALSE

Comparisons == {"__eq__", "__ne__"} \cup Ordering

C13_RendersSymbolOrName ==
    (last.op = "__str__" /\ HasUnit(Self))
    => /\ Returned
       /\ Self.unit.symbol # ""
          => Result = FloatStr(Self.value) \o " " \o Self.unit.symbol
       /\ Self.unit.symbol = ""
          => Result # FloatStr(Self.value) \o " " \o MethodWrapper

\* C14: registry keys are identified by name alone: add_unit under an
\* identity whose name an entry already has leaves the number of entries
\* as it was, and no two entries ever share a name.
C14_KeysByNameAlone ==
    /\ \A i, j \in 1..Len(units) :
           units[i].id.name = units[j].id.name => i = j
    /\ (/\ last.op = "add_unit"
        /\ \E i \in 1..Len(last.units0) :
               last.units0[i].id.name = last.args[1].name)
       => Len(units) = Len(last.units0)

\* A unit that __mul__, __div__ or __pow__ made up.
IsSynthesized(u) ==
    u.components # None /\ u.to_base = "None" /\ u.from_base = "None"

\* The entries of a registry, beyond the catalog's, that carry the symbol
\* as name or alias and have both conversion functions.
RegisteredBy(d, symbol) ==
    {i \in 1..Len(d) :
        /\ \A j \in 1..Len(RegistryUnits) : d[i] # RegistryUnits[j]
        /\ d[i].id.name = symbol \/ InAliases(symbol, d[i].id)
        /\ d[i].unit.to_base # "None"
        /\ d[i].unit.from_base # "None"}

\* C15: add and subtract of two Measurements that carry a synthesized
\* compound unit raise the conversion error; once the caller has
\* registered a unit with to_base and from_base under the compound symbol
\* (as name or alias), a composition producing that symbol returns the
\* registered unit and adding its results succeeds.
C15_RegisteredCompoundIsReused ==
    /\ (/\ BothMeasurements({"__add__", "__sub__"})
        /\ BothHaveUnits
        /\ IsSynthesized(Self.unit) /\ IsSynthesized(Other.unit)
        /\ Self.unit.kind = Other.unit.kind)
       => /\ last.out.raised = "TypeError"
          /\ last.out.msg = ConvMsg
    /\ (/\ BothMeasurements({"__mul__", "__div__"})
        /\ BothHaveUnits
        /\ Returned)
       => \A i \in RegisteredBy(last.units0,
                       Self.unit.symbol \o Sign \o Other.unit.symbol) :
              /\ Result.unit = last.units0[i].unit
              /\ __add__(Result, Result).raised = "None"

\* len(ops) == len(components) - 1 when both are there.
OpsMatchComponents(u) ==
    (u.components # None /\ u.ops # None)
    => Len(u.ops[1]) = Len(u.components[1]) - 1

\* C16: every unit in the registry or carried by a Measurement that has
\* components and ops has one op fewer than components; self ** exp (for
\* exp >= 1) returns self.value ** exp in a unit with symbol "s^exp",
\* exp components and exp - 1 ops.
C16_OpsOneFewerThanComponents ==
    /\ \A i \in 1..Len(units) : OpsMatchComponents(units[i].unit)
    /\ \A i \in DOMAIN x : HasUnit(x[i]) => OpsMatchComponents(x[i].unit)
    /\ (last.op \in Arithmetic \cup {"__pow__"} /\ Returned)
       => OpsMatchComponents(Result.unit)
    /\ (last.op = "__pow__" /\ HasUnit(Self) /\ Other.value[1] >= 1)
       => /\ Returned
          /\ Result.value = QPow(Self.value, Other.value[1])
          /\ Result.unit.symbol =
                 Self.unit.symbol \o "^" \o IntStr(Other.value[1])
          /\ Result.unit.components =
                 Some([k \in 1..Other.value[1] |-> Self.unit.symbol])
          /\ Result.unit.ops # None
          /\ Len(Result.unit.ops[1]) = Other.value[1] - 1

\* C17: _get_unit returns the unit of an entry whenever some entry, at
\* any position, has the symbol as its name or among its aliases, and
\* None only when none has: what the constructor resolves the string to.
C17_GetUnitScansAllEntries ==
    last.op = "_get_unit"
    => /\ Returned
       /\ Result = Resolve(Other.str)
       /\ HasUnit(__init__(QInt(0), Other)) <=> Result # None
       /\ Result # None => __init__(QInt(0), Other).unit = Result[1]

\* The strings some entry of a registry has as name or alias, and the
\* strings the caller uses.
Tokens(d) ==
    {d[i].id.name : i \in 1..Len(d)}
        \cup {t \in UNION {{a[n] : n \in 1..Len(a)} :
                             a \in UNION {{d[i].id.aliases[k] :
                                               k \in 1..Len(d[i].id.aliases)} :
                                           i \in 1..Len(d)}} : TRUE}
        \cup InputStrs \cup Symbols

\* C18: the registry only grows and earlier entries shadow later ones: no
\* call removes or moves an entry (only add_unit changes the registry, and
\* after any calls the catalog's entries are where they were), and
\* add_unit under a name that no entry has appends one entry and leaves
\* every string that resolved before resolving to the same unit.
C18_RegistryOnlyGrows ==
    /\ last.op \notin {"none", "add_unit"} => units = last.units0
    /\ last.op \in {"none", "add_unit"}
       => /\ Len(units) >= Len(RegistryUnits)
          /\ \A i \in 1..Len(RegistryUnits) :
                 units[i].id = RegistryUnits[i].id
    /\ last.op = "add_unit"
       => /\ Len(units) >= Len(last.units0)
          /\ \A i \in 1..Len(last.units0) : units[i].id = last.units0[i].id
    /\ (/\ last.op = "add_unit"
        /\ \A i \in 1..Len(last.units0) :
               last.units0[i].id.name # last.args[1].name)
       => /\ Len(units) = Len(last.units0) + 1
          /\ units[Len(units)] = Item(last.args[1], last.args[2])
          /\ \A token \in Tokens(last.units0) :
                 InitScan(last.units0, 1, token) # None
                 => InitScan(units, 1, token) = InitScan(last.units0, 1, token)

\* C18 witness: "second squared" with the aliases "s*s" and "s" was
\* registered; it is the 18th entry and "s" still resolves to the second.
C18_Witness ==
    /\ last.op = "add_unit"
    /\ last.args[1].name = "second squared"
    /\ Len(last.units0) = 17
    /\ Len(units) = 18
    /\ units[18].unit.symbol = "s*s"
    /\ Resolve("s") = Some(BaseUnit("s", "time"))
    /\ Resolve("s*s") = Some(BaseUnit("s*s", "time*time"))

\* C19: over the pre-seeded registry, a Measurement constructed from the
\* string that is the symbol of a catalog unit carries that unit.
C19_CatalogSymbolsResolve ==
    (/\ IsInit
     /\ last.args[3].type = "str"
     /\ last.units0 = RegistryUnits)
    => \A i \in 1..Len(RegistryUnits) :
           RegistryUnits[i].unit.symbol = last.args[3].str
           => /\ HasUnit(Self)
              /\ Self.unit = RegistryUnits[i].unit

====
